---------------------------- MODULE Spec2Model ----------------------------
(***************************************************************************)
(* DataNuke: a state-machine model of the key lifecycle (crypto module and *)
(* main), of the confirmation gates, and of the secure erasure engine      *)
(* (secure_overwrite, secure_delete_device).  One entry point is run per   *)
(* behaviour; `op' names it.  Every call into the C library, OpenSSL or    *)
(* the operating system draws its outcome with \E from the outcomes the    *)
(* call can have.                                                          *)
(***************************************************************************)
EXTENDS Integers, Sequences, FiniteSets, TLC

(***************************************************************************)
(* Program constants.                                                      *)
(***************************************************************************)
AES_KEY_SIZE == 32
AES_BLOCK_SIZE == 16
DATANUKE_SUCCESS == 0
DATANUKE_ERROR_IO == -1
DATANUKE_ERROR_CRYPTO == -2
DATANUKE_ERROR_MEMORY == -3
DATANUKE_ERROR_PLATFORM == -4
\* sizeof(confirm) and sizeof(confirmation): char[10]
CONFIRM_SIZE == 10
\* secure_overwrite's buffer: malloc(4096)
SO_CHUNK == 4096
\* secure_delete_device's buffer: malloc(1024 * 1024)
SDD_CHUNK == 1048576
\* crypto_encrypt_file: unsigned char inbuf[4096]
ENC_CHUNK == 4096

(***************************************************************************)
(* Bounds of the model.                                                    *)
(***************************************************************************)
\* number of distinct constant-byte buffers the CSPRNG may return
NRandVals == 2
\* longest exhaustively enumerated standard-input prefix
MaxLine == 4
\* device sizes up to MaxDevChunks full chunks (plus one byte)
MaxDevChunks == 2
\* file sizes up to MaxFileChunks full chunks (plus one byte)
MaxFileChunks == 2
\* largest pass count handed to secure_overwrite
MaxPasses == 6
\* calls of crypto_encrypt_file a caller makes on one context
MaxEncryptCalls == 2
\* input files of crypto_encrypt_file hold up to this many whole cipher blocks
MaxEncBlocks == 2

(***************************************************************************)
(* Bytes, buffers and the CSPRNG.                                          *)
(***************************************************************************)
Min(a, b) == IF a < b THEN a ELSE b

\* memset(buf, c, n) over a whole n-byte array
Memset(n, c) == [i \in 1..n |-> c]

AllZero(buf) == \A i \in DOMAIN buf : buf[i] = 0

\* the byte values of the constant buffers RAND_bytes may deliver
RandVals == {(90 * k + 17) % 256 : k \in 1..NRandVals}

\* what a successful RAND_bytes(buf, n) may leave in buf
RandBufs(n) == {Memset(n, v) : v \in RandVals}
                 \cup {[i \in 1..n |-> (7 * i + 3) % 256]}

\* what an uninitialised (stack) array of n bytes may hold
Garbage(n) == RandBufs(n) \cup {Memset(n, 0), Memset(n, 255)}

\* RAND_bytes(buf, n): <<return value, buffer afterwards>>.  On failure (0)
\* the buffer is unspecified: untouched or holding some generator output.
RAND_bytes(old, n) == {<<1, b>> : b \in RandBufs(n)}
                        \cup {<<0, b>> : b \in {old} \cup RandBufs(n)}

(***************************************************************************)
(* C strings: characters are short strings, NUL and NL are named.          *)
(***************************************************************************)
NUL == "nul"
NL == "nl"
SP == "sp"

\* the index of the first element of s in set S, Len(s)+1 if there is none
FirstIdx(s, S) == IF \E i \in 1..Len(s) : s[i] \in S
                  THEN CHOOSE i \in 1..Len(s) :
                         s[i] \in S /\ \A j \in 1..(i - 1) : s[j] \notin S
                  ELSE Len(s) + 1

\* the C string an array holds: its bytes before the first NUL
CStr(buf) == SubSeq(buf, 1, FirstIdx(buf, {NUL}) - 1)

\* fgets(buf, n, stdin) on a stream holding `input': at most n-1 characters,
\* stopping after the first newline.  NULL (FgetsNull) at end of input.
FgetsNull(input) == input = <<>>
Fgets(input, n) == LET cap == SubSeq(input, 1, Min(Len(input), n - 1))
                       nl == FirstIdx(cap, {NL})
                   IN  SubSeq(cap, 1, Min(nl, Len(cap)))

\* strncmp(a, b, n) == 0
StrncmpEq(a, b, n) == LET ca == CStr(a)
                          cb == CStr(b)
                      IN  SubSeq(ca, 1, Min(n, Len(ca))) = SubSeq(cb, 1, Min(n, Len(cb)))

\* strcmp(a, b) == 0
StrcmpEq(a, b) == CStr(a) = CStr(b)

\* strcspn(s, reject)
Strcspn(s, reject) == FirstIdx(CStr(s), reject) - 1

\* buf[idx] = 0 (idx counted from 0; position Len(buf) is the terminator)
SetNul(buf, idx) == IF idx + 1 <= Len(buf) THEN [buf EXCEPT ![idx + 1] = NUL] ELSE buf

YES == <<"Y", "E", "S">>
YESNL == <<"Y", "E", "S", NL>>

RECURSIVE SeqsUpTo(_, _)
SeqsUpTo(S, n) == IF n = 0 THEN {<<>>}
                  ELSE LET shorter == SeqsUpTo(S, n - 1)
                       IN  shorter \cup {Append(s, c) : s \in {t \in shorter : Len(t) = n - 1}, c \in S}

\* the inputs the operator may supply on standard input: every sequence up
\* to MaxLine characters over the characters the gates distinguish, and a
\* list of named lines (<<>> is end of input)
GateChars == {"Y", "E", "S", SP, NL, NUL}
LongLine == <<"Y", "E", "S", "x", "x", "x", "x", "x", "x", "x", "x", NL>>
NamedInputs == { <<"y", "e", "s", NL>>, <<"Y", "e", "s", NL>>,
                 <<"Y", "E", "S", SP, NL>>, <<"N", "O", NL>>,
                 <<"Y", "E", "S", NL, "Y", "E", "S", NL>>,
                 <<"Y", "E", "S", NUL, "N", "O", NL>>,
                 LongLine,
                 <<"x", "x", "x", "x", "x", "x", "x", "x", "x", "Y", "E", "S", NL>> }
Inputs == SeqsUpTo(GateChars, MaxLine) \cup NamedInputs

VARIABLES
  op,            \* the entry point this behaviour runs
  pc,            \* the statement about to execute
  stack,         \* return labels of the calls in progress
  ret,           \* the value the entry point returns (read when pc = "done")
  key, iv,       \* crypto_context_t.key / .iv (<<>>: the context is not in scope)
  cipher_ctx,    \* crypto_context_t.cipher_ctx
  pinned,        \* mlock succeeded and munlock has not been called
  calls,         \* the calls main made on the context, in order
  keyGenerated,  \* RAND_bytes has delivered key material into the context
  rv,            \* the value the last call on the context returned
  randFailed,    \* a RAND_bytes call of the wipe in progress failed
  wipeLog,       \* the overwrite passes of the wipe in progress, or of the last one
  csprng,        \* the RAND_bytes calls of crypto_init: <<result, bytes>> each
  output,        \* the messages printed to stdout and stderr, in order
  transforms,    \* calls of crypto_encrypt_file on the context that opened their output
  displayed,     \* what crypto_display_key printed, one entry per call
  stdin,         \* the standard input the gate read from
  confirm,       \* the gate's buffer after fgets
  gate,          \* "none", "accepted" or "declined"
  tkind,         \* what the target path is
  is_device,     \* main's is_device
  tfile, tmpfile,  \* the target path and <target>.tmp_encrypted
  inbytes,       \* the bytes of crypto_encrypt_file's input file
  outbytes,      \* the bytes of crypto_encrypt_file's output file
  devOpenW,      \* the device was opened for writing
  devPos,        \* bytes of the device overwritten so far: [0, devPos)
  probe,         \* outcome of platform_get_device_size
  device_size,   \* secure_delete_device's device_size
  written,       \* secure_delete_device's written
  passes, file_size, pass, remaining,  \* secure_overwrite's variables
  buffer,        \* what secure_overwrite's buffer holds
  sweep,         \* the pass in progress, or the last one started (its chunk sizes included)
  goodSweeps,    \* passes that began at offset 0, covered the file and were flushed and synced
  badSweep,      \* a pass ended with a failed seek, flush or sync
  unlinked       \* remove(path) succeeded

ctxData == <<key, iv, cipher_ctx, pinned, calls, keyGenerated, transforms, csprng,
             rv, randFailed, wipeLog, displayed>>
ctxVars == <<ctxData, output>>
gateVars == <<stdin, confirm, gate>>
mainVars == <<tkind, is_device, tfile, tmpfile>>
fileVars == <<inbytes, outbytes>>
devVars == <<devOpenW, devPos, probe, device_size, written>>
soVars == <<passes, file_size, pass, remaining, buffer, sweep, goodSweeps, badSweep,
           unlinked>>
vars == <<op, pc, stack, ret, ctxVars, gateVars, mainVars, fileVars, devVars, soVars>>


(***************************************************************************)
(* crypto module: crypto_secure_wipe_key, crypto_cleanup, crypto_init.     *)
(***************************************************************************)
\* a NULL context pointer (only the stand-alone entry points can pass one)
CtxIsNull == key = <<>>

Return(value) == /\ rv' = value
                 /\ pc' = Head(stack)
                 /\ stack' = Tail(stack)
                 /\ ret' = IF Head(stack) = "done" THEN value ELSE ret

\* what a buffer holds, as far as the overwrite patterns distinguish it
ByteClass(buf) == IF AllZero(buf) THEN "0x00"
                  ELSE IF \A i \in DOMAIN buf : buf[i] = 255 THEN "0xFF"
                  ELSE "random"

\* one overwrite pass of the wipe: the call that wrote, and what key and iv
\* hold after it
WipeEntry(how, k, i) == [how |-> how, keyLen |-> Len(k), ivLen |-> Len(i),
                         key |-> ByteClass(k), iv |-> ByteClass(i)]

\* if (!ctx) return DATANUKE_ERROR_CRYPTO;  Pass 1: all zeros
WipePass1 ==
  /\ pc = "wipe_p1"
  /\ IF CtxIsNull
     THEN /\ Return(DATANUKE_ERROR_CRYPTO)
          /\ UNCHANGED <<key, iv, randFailed, wipeLog>>
     ELSE /\ key' = Memset(AES_KEY_SIZE, 0)
          /\ iv' = Memset(AES_BLOCK_SIZE, 0)
          /\ randFailed' = FALSE
          /\ wipeLog' = <<WipeEntry("memset", key', iv')>>
          /\ pc' = "wipe_p2"
          /\ UNCHANGED <<stack, ret, rv>>
  /\ UNCHANGED <<fileVars, op, cipher_ctx, pinned, calls, keyGenerated, transforms, csprng, output, displayed,
                 gateVars, mainVars, devVars, soVars>>

\* a faulty variant: pass 2 overwrites the key and leaves the iv alone
WipePass2_keyOnly ==
  /\ pc = "wipe_p2"
  /\ key' = Memset(AES_KEY_SIZE, 255)
  /\ iv' = iv
  /\ wipeLog' = Append(wipeLog, WipeEntry("memset", key', iv'))
  /\ pc' = "wipe_p3"
  /\ UNCHANGED <<fileVars, op, stack, ret, rv, cipher_ctx, pinned, calls, keyGenerated, transforms, csprng, output,
                 randFailed, displayed, gateVars, mainVars, devVars, soVars>>

\* Pass 2: all ones
WipePass2 ==
  /\ pc = "wipe_p2"
  /\ key' = Memset(AES_KEY_SIZE, 255)
  /\ iv' = Memset(AES_BLOCK_SIZE, 255)
  /\ wipeLog' = Append(wipeLog, WipeEntry("memset", key', iv'))
  /\ pc' = "wipe_p3"
  /\ UNCHANGED <<fileVars, op, stack, ret, rv, cipher_ctx, pinned, calls, keyGenerated, transforms, csprng, output,
                 randFailed, displayed, gateVars, mainVars, devVars, soVars>>

\* a faulty variant: a wipe that gives up when the CSPRNG fails
WipePass3_abortOnFailure ==
  /\ pc = "wipe_p3"
  /\ \E rk \in RAND_bytes(key, AES_KEY_SIZE), ri \in RAND_bytes(iv, AES_BLOCK_SIZE) :
       /\ key' = rk[2]
       /\ iv' = ri[2]
       /\ randFailed' = (rk[1] # 1 \/ ri[1] # 1)
       /\ wipeLog' = Append(wipeLog, WipeEntry("RAND_bytes", key', iv'))
       /\ IF rk[1] # 1 \/ ri[1] # 1
          THEN Return(DATANUKE_ERROR_CRYPTO)
          ELSE pc' = "wipe_p4" /\ UNCHANGED <<stack, ret, rv>>
  /\ UNCHANGED <<fileVars, op, cipher_ctx, pinned, calls, keyGenerated, transforms, csprng, output, displayed,
                 gateVars, mainVars, devVars, soVars>>

\* Pass 3: random data; the results of both RAND_bytes calls are discarded
WipePass3 ==
  /\ pc = "wipe_p3"
  /\ \E rk \in RAND_bytes(key, AES_KEY_SIZE), ri \in RAND_bytes(iv, AES_BLOCK_SIZE) :
       /\ key' = rk[2]
       /\ iv' = ri[2]
       /\ randFailed' = (rk[1] # 1 \/ ri[1] # 1)
       /\ wipeLog' = Append(wipeLog, WipeEntry("RAND_bytes", key', iv'))
  /\ pc' = "wipe_p4"
  /\ UNCHANGED <<fileVars, op, stack, ret, rv, cipher_ctx, pinned, calls, keyGenerated, transforms, csprng, output,
                 displayed, gateVars, mainVars, devVars, soVars>>

\* Pass 4: final zeros
WipePass4 ==
  /\ pc = "wipe_p4"
  /\ key' = Memset(AES_KEY_SIZE, 0)
  /\ iv' = Memset(AES_BLOCK_SIZE, 0)
  /\ wipeLog' = Append(wipeLog, WipeEntry("memset", key', iv'))
  /\ pc' = "wipe_vol"
  /\ UNCHANGED <<fileVars, op, stack, ret, rv, cipher_ctx, pinned, calls, keyGenerated, transforms, csprng, output,
                 randFailed, displayed, gateVars, mainVars, devVars, soVars>>

\* for (i < AES_KEY_SIZE) vkey[i] = 0;  for (i < AES_BLOCK_SIZE) viv[i] = 0;
\* return DATANUKE_SUCCESS
WipeVolatile ==
  /\ pc = "wipe_vol"
  /\ key' = [i \in DOMAIN key |-> IF i <= AES_KEY_SIZE THEN 0 ELSE key[i]]
  /\ iv' = [i \in DOMAIN iv |-> IF i <= AES_BLOCK_SIZE THEN 0 ELSE iv[i]]
  /\ wipeLog' = Append(wipeLog, WipeEntry("volatile", key', iv'))
  /\ Return(DATANUKE_SUCCESS)
  /\ UNCHANGED <<fileVars, op, cipher_ctx, pinned, calls, keyGenerated, transforms, csprng, output, randFailed,
                 displayed, gateVars, mainVars, devVars, soVars>>

\* crypto_cleanup after its call of crypto_secure_wipe_key:
\* memset(ctx, 0, sizeof(crypto_context_t)), then return
CleanupMemset ==
  /\ pc = "cleanup_memset"
  /\ key' = Memset(AES_KEY_SIZE, 0)
  /\ iv' = Memset(AES_BLOCK_SIZE, 0)
  /\ cipher_ctx' = "NULL"
  /\ pc' = Head(stack)
  /\ stack' = Tail(stack)
  /\ UNCHANGED <<fileVars, op, ret, rv, pinned, calls, keyGenerated, transforms, csprng,
                 output, randFailed, wipeLog, displayed,
                 gateVars, mainVars, devVars, soVars>>

\* a faulty variant: the context is not zeroed before it is filled
CryptoInit_noMemset(rk, ri) ==
  IF rk[1] # 1
  THEN [rc |-> DATANUKE_ERROR_CRYPTO, key |-> rk[2],
        iv |-> Memset(AES_BLOCK_SIZE, 255), cipher_ctx |-> "unset"]
  ELSE IF ri[1] # 1
  THEN [rc |-> DATANUKE_ERROR_CRYPTO, key |-> rk[2], iv |-> ri[2], cipher_ctx |-> "unset"]
  ELSE [rc |-> DATANUKE_SUCCESS, key |-> rk[2], iv |-> ri[2], cipher_ctx |-> "unset"]

\* crypto_init (with crypto_generate_key) on a context of arbitrary contents:
\* rk and ri are the outcomes of the two RAND_bytes calls
CryptoInit(rk, ri) ==
  IF rk[1] # 1
  THEN [rc |-> DATANUKE_ERROR_CRYPTO, key |-> rk[2],
        iv |-> Memset(AES_BLOCK_SIZE, 0), cipher_ctx |-> "NULL"]
  ELSE IF ri[1] # 1
  THEN [rc |-> DATANUKE_ERROR_CRYPTO, key |-> rk[2], iv |-> ri[2], cipher_ctx |-> "NULL"]
  ELSE [rc |-> DATANUKE_SUCCESS, key |-> rk[2], iv |-> ri[2], cipher_ctx |-> "NULL"]

(***************************************************************************)
(* Platform abstraction.                                                   *)
(***************************************************************************)
\* what a path may be
TargetKinds == {"file", "device", "inaccessible"}

\* platform_is_device: 0 when stat fails, S_ISBLK(st_mode) otherwise
PlatformIsDevice(kind) == IF kind = "device" THEN 1 ELSE 0

\* the sizes a device may report
DeviceSizes == {k * SDD_CHUNK + d : k \in 0..MaxDevChunks, d \in {0, 1}}
                 \cup {SDD_CHUNK - 1}

\* platform_get_device_size (Linux): <<status, *size>>; open or fstat may fail
PlatformGetDeviceSize == {<<DATANUKE_ERROR_IO, 0>>}
                           \cup {<<DATANUKE_SUCCESS, s>> : s \in DeviceSizes}

\* platform_lock_memory / platform_unlock_memory from mlock's / munlock's result
PlatformLockMemory(rc) == IF rc = 0 THEN DATANUKE_SUCCESS ELSE DATANUKE_ERROR_PLATFORM

(***************************************************************************)
(* main.                                                                   *)
(***************************************************************************)
\* the digits of printf's %x
HexDigits == <<"0", "1", "2", "3", "4", "5", "6", "7", "8", "9",
               "a", "b", "c", "d", "e", "f">>

\* a faulty variant: "%x", which prints no leading zero
Hex02x_unpadded(b) == IF b < 16 THEN <<HexDigits[b + 1]>>
                      ELSE <<HexDigits[(b \div 16) + 1], HexDigits[(b % 16) + 1]>>

\* printf("%02x", b) for a uint8_t b
Hex02x(b) == <<HexDigits[(b \div 16) + 1], HexDigits[(b % 16) + 1]>>

\* for (i = 0; i < n; i++) printf("%02x", buf[i]): the characters printed
RECURSIVE HexDump(_, _)
HexDump(buf, n) == IF n = 0 THEN <<>> ELSE HexDump(buf, n - 1) \o Hex02x(buf[n])

\* one printf / fprintf / perror call: its format and the values of its
\* arguments, each a sequence of characters
Msg(fmt, args) == [fmt |-> fmt, args |-> args]

\* argv[1] as it appears in messages
TargetArg == <<"target_file">>

\* ERR_error_string(ERR_get_error(), NULL) and perror's strerror(errno)
ErrArg == <<"error string">>

\* what crypto_init and then main print when crypto_init fails
CryptoInitMessages(rk, ri) ==
  IF rk[1] # 1
  THEN <<Msg("Error generating key: %s", <<ErrArg>>),
         Msg("Failed to initialize cryptography", <<>>)>>
  ELSE IF ri[1] # 1
  THEN <<Msg("Error generating IV: %s", <<ErrArg>>),
         Msg("Failed to initialize cryptography", <<>>)>>
  ELSE <<>>

\* what crypto_encrypt_file may print for a status it returns
EncryptFileMessages(kind, rc) ==
  IF rc = DATANUKE_ERROR_IO
  THEN {<<Msg("Cannot open input file", <<ErrArg>>)>>}
         \cup (IF kind = "inaccessible" THEN {}
               ELSE {<<Msg("Cannot open output file", <<ErrArg>>)>>})
  ELSE IF rc = DATANUKE_ERROR_CRYPTO
  THEN {<<Msg("Error creating cipher context", <<>>)>>,
        <<Msg("Error initializing encryption: %s", <<ErrArg>>)>>,
        <<Msg("Error during encryption: %s", <<ErrArg>>)>>,
        <<Msg("Error finalizing encryption: %s", <<ErrArg>>)>>}
  ELSE {<<>>}

\* crypto_display_key's lines that carry data
DisplayMessages(k, i) ==
  <<Msg("ENCRYPTION KEY (Display once only)", <<>>),
    Msg("Key (hex): %02x", <<HexDump(k, AES_KEY_SIZE)>>),
    Msg("IV (hex):  %02x", <<HexDump(i, AES_BLOCK_SIZE)>>),
    Msg("WARNING: This key will be securely deleted!", <<>>)>>

\* the gate of main: fgets(...) == NULL || strncmp(confirm, "YES\n", 4) != 0
MainGateAborts(input) ==
  FgetsNull(input) \/ ~StrncmpEq(Fgets(input, CONFIRM_SIZE), YESNL, 4)

\* if (argc != 2) { print_usage; return 1; }
MainStart ==
  /\ op = "main" /\ pc = "main_start"
  /\ \E argc \in 1..3 :
       IF argc # 2
       THEN /\ pc' = "done" /\ ret' = 1
            /\ output' = Append(output, Msg("Usage: %s <file|device>", <<<<"argv[0]">>>>))
       ELSE /\ pc' = "is_device" /\ ret' = ret
            /\ output' = output
  /\ UNCHANGED <<fileVars, op, stack, ctxData, gateVars, mainVars, devVars, soVars>>

\* a faulty variant: the confirmation is asked for every target
MainIsDevice_gatesFiles ==
  /\ pc = "is_device"
  /\ \E k \in TargetKinds :
       /\ tkind' = k
       /\ is_device' = PlatformIsDevice(k)
       /\ tfile' = IF k = "file" THEN "plain" ELSE tfile
       /\ IF PlatformIsDevice(k) < 0
          THEN /\ pc' = "done" /\ ret' = 1
               /\ output' = Append(output, Msg("Error: Cannot access %s", <<TargetArg>>))
          ELSE /\ pc' = "probe"
               /\ ret' = ret
               /\ output' = output \o
                    <<Msg("Target: %s", <<TargetArg>>),
                      Msg("Type:   %s", <<IF PlatformIsDevice(k) # 0
                                          THEN <<"Block Device">>
                                          ELSE <<"Regular File">>>>)>>
  /\ UNCHANGED <<fileVars, op, stack, ctxData, gateVars, tmpfile, devVars, soVars>>

\* is_device = platform_is_device(target_file); if (is_device < 0) return 1
MainIsDevice ==
  /\ pc = "is_device"
  /\ \E k \in TargetKinds :
       /\ tkind' = k
       /\ is_device' = PlatformIsDevice(k)
       /\ tfile' = IF k = "file" THEN "plain" ELSE tfile
       /\ IF PlatformIsDevice(k) < 0
          THEN /\ pc' = "done" /\ ret' = 1
               /\ output' = Append(output, Msg("Error: Cannot access %s", <<TargetArg>>))
          ELSE /\ pc' = IF PlatformIsDevice(k) # 0 THEN "probe" ELSE "crypto_init"
               /\ ret' = ret
               /\ output' = output \o
                    <<Msg("Target: %s", <<TargetArg>>),
                      Msg("Type:   %s", <<IF PlatformIsDevice(k) # 0
                                          THEN <<"Block Device">>
                                          ELSE <<"Regular File">>>>)>>
  /\ UNCHANGED <<fileVars, op, stack, ctxData, gateVars, tmpfile, devVars, soVars>>

\* if (is_device) { platform_get_device_size(...) printed when it succeeds
MainProbe ==
  /\ pc = "probe"
  /\ \E r \in PlatformGetDeviceSize :
       /\ probe' = IF r[1] = DATANUKE_SUCCESS THEN "ok" ELSE "failed"
       /\ device_size' = r[2]
       /\ output' = output \o
            (IF r[1] = DATANUKE_SUCCESS
             THEN <<Msg("Device size: %.2f GB (%llu bytes)", <<<<"size">>, <<"size">>>>)>>
             ELSE <<>>) \o
            <<Msg("WARNING: This will DESTROY all data on %s!", <<TargetArg>>),
              Msg("Type 'YES' to confirm (uppercase): ", <<>>)>>
  /\ pc' = "gate"
  /\ UNCHANGED <<fileVars, op, stack, ret, ctxData, gateVars, mainVars, devOpenW, devPos,
                 written, soVars>>

\* a faulty variant: the abort branch lacks its return
MainGate_fallsThrough ==
  /\ pc = "gate"
  /\ \E input \in Inputs :
       /\ stdin' = input
       /\ confirm' = Fgets(input, CONFIRM_SIZE)
       /\ gate' = IF MainGateAborts(input) THEN "declined" ELSE "accepted"
       /\ output' = IF MainGateAborts(input)
                     THEN Append(output, Msg("Aborted.", <<>>)) ELSE output
       /\ pc' = "crypto_init" /\ ret' = ret
  /\ UNCHANGED <<fileVars, op, stack, ctxData, mainVars, devVars, soVars>>

\* char confirm[10]; if (fgets(...) == NULL || strncmp(...) != 0)
\* { printf("Aborted.\n"); return 1; }
MainGate ==
  /\ pc = "gate"
  /\ \E input \in Inputs :
       /\ stdin' = input
       /\ confirm' = Fgets(input, CONFIRM_SIZE)
       /\ IF MainGateAborts(input)
          THEN /\ gate' = "declined" /\ pc' = "done" /\ ret' = 1
               /\ output' = Append(output, Msg("Aborted.", <<>>))
          ELSE /\ gate' = "accepted" /\ pc' = "crypto_init" /\ ret' = ret
               /\ output' = output
  /\ UNCHANGED <<fileVars, op, stack, ctxData, mainVars, devVars, soVars>>

\* crypto_context_t ctx; if (crypto_init(&ctx) != DATANUKE_SUCCESS) return 1
MainCryptoInit ==
  /\ pc = "crypto_init"
  /\ \E rk \in RAND_bytes(Memset(AES_KEY_SIZE, 0), AES_KEY_SIZE),
        ri \in RAND_bytes(Memset(AES_BLOCK_SIZE, 0), AES_BLOCK_SIZE) :
       LET r == CryptoInit(rk, ri)
       IN  /\ key' = r.key
           /\ iv' = r.iv
           /\ cipher_ctx' = r.cipher_ctx
           /\ rv' = r.rc
           /\ keyGenerated' = (rk[1] = 1)
           /\ csprng' = IF rk[1] # 1 THEN <<rk>> ELSE <<rk, ri>>
           /\ output' = output \o CryptoInitMessages(rk, ri)
           /\ IF r.rc # DATANUKE_SUCCESS
              THEN pc' = "done" /\ ret' = 1
              ELSE pc' = "lock" /\ ret' = ret
  /\ calls' = Append(calls, "crypto_init")
  /\ UNCHANGED <<fileVars, op, stack, pinned, randFailed, wipeLog, transforms, displayed, gateVars, mainVars,
                 devVars, soVars>>

\* a faulty variant: locking the context clears the key
MainLock_clearsKey ==
  /\ pc = "lock"
  /\ \E mlock \in {0, -1} :
       /\ rv' = PlatformLockMemory(mlock)
       /\ pinned' = (mlock = 0)
  /\ key' = Memset(AES_KEY_SIZE, 0)
  /\ calls' = Append(calls, "platform_lock_memory")
  /\ pc' = "encrypt"
  /\ UNCHANGED <<fileVars, op, stack, ret, iv, cipher_ctx, keyGenerated, transforms, csprng,
                 output, randFailed, wipeLog,
                 displayed, gateVars, mainVars, devVars, soVars>>

\* platform_lock_memory(&ctx, sizeof(ctx)); the result is discarded
MainLock ==
  /\ pc = "lock"
  /\ \E mlock \in {0, -1} :
       /\ rv' = PlatformLockMemory(mlock)
       /\ pinned' = (mlock = 0)
  /\ calls' = Append(calls, "platform_lock_memory")
  /\ pc' = "encrypt"
  /\ UNCHANGED <<fileVars, op, stack, ret, key, iv, cipher_ctx, keyGenerated, transforms, csprng,
                 output, randFailed, wipeLog,
                 displayed, gateVars, mainVars, devVars, soVars>>

\* crypto_encrypt_device(target_file, &ctx): the status it returns and the
\* number of device bytes it has overwritten by then
CryptoEncryptDevice ==
  {<<DATANUKE_SUCCESS, device_size>>}
    \cup {<<e, n>> : e \in {DATANUKE_ERROR_IO, DATANUKE_ERROR_CRYPTO},
                     n \in {0, Min(1, device_size)}}

\* result = crypto_encrypt_device(...); on failure unlock, cleanup, return 1
MainEncryptDevice ==
  /\ pc = "encrypt" /\ is_device # 0
  /\ \E r \in CryptoEncryptDevice :
       /\ rv' = r[1]
       /\ devOpenW' = TRUE
       /\ devPos' = r[2]
       /\ IF r[1] # DATANUKE_SUCCESS
          THEN /\ pc' = "unlock" /\ ret' = 1
               /\ output' = Append(output, Msg("Device encryption failed", <<>>))
          ELSE /\ pc' = "display" /\ ret' = ret
               /\ output' = output
  /\ calls' = Append(calls, "crypto_encrypt_device")
  /\ UNCHANGED <<fileVars, op, stack, key, iv, cipher_ctx, pinned, keyGenerated, transforms, csprng,
                 randFailed, wipeLog, displayed, gateVars, mainVars, probe, device_size, written, soVars>>

\* crypto_encrypt_file(target, temp, ctx): <<status, temp file afterwards>>.
\* fopen of the input fails (always so for a path that cannot be accessed);
\* fopen of the output fails; the cipher fails after the output was created;
\* or the loop runs to its end, the results of fread and fwrite unchecked.
CryptoEncryptFile(kind, tmp) ==
  {<<DATANUKE_ERROR_IO, tmp>>}
    \cup (IF kind = "inaccessible" THEN {}
          ELSE {<<DATANUKE_ERROR_CRYPTO, "partial">>,
                <<DATANUKE_SUCCESS, "cipher">>,
                <<DATANUKE_SUCCESS, "partial">>})

\* a faulty variant: the failure branch returns without unlock and cleanup
MainEncryptFile_returnsEarly ==
  /\ pc = "encrypt" /\ is_device = 0
  /\ \E r \in CryptoEncryptFile(tkind, tmpfile) :
       /\ rv' = r[1]
       /\ tmpfile' = r[2]
       /\ \E printed \in EncryptFileMessages(tkind, r[1]) :
            IF r[1] # DATANUKE_SUCCESS
            THEN /\ pc' = "done" /\ ret' = 1
                 /\ output' = output \o printed \o <<Msg("Encryption failed", <<>>)>>
            ELSE /\ pc' = "replace" /\ ret' = ret
                 /\ output' = output \o printed
  /\ calls' = Append(calls, "crypto_encrypt_file")
  /\ UNCHANGED <<fileVars, op, stack, key, iv, cipher_ctx, pinned, keyGenerated, transforms, csprng,
                 randFailed, wipeLog, displayed, gateVars, tkind, is_device, tfile,
                 devVars, soVars>>

\* result = crypto_encrypt_file(...); on failure unlock, cleanup, return 1
MainEncryptFile ==
  /\ pc = "encrypt" /\ is_device = 0
  /\ \E r \in CryptoEncryptFile(tkind, tmpfile) :
       /\ rv' = r[1]
       /\ tmpfile' = r[2]
       /\ \E printed \in EncryptFileMessages(tkind, r[1]) :
            IF r[1] # DATANUKE_SUCCESS
            THEN /\ pc' = "unlock" /\ ret' = 1
                 /\ output' = output \o printed \o <<Msg("Encryption failed", <<>>)>>
            ELSE /\ pc' = "replace" /\ ret' = ret
                 /\ output' = output \o printed
  /\ calls' = Append(calls, "crypto_encrypt_file")
  /\ UNCHANGED <<fileVars, op, stack, key, iv, cipher_ctx, pinned, keyGenerated, transforms, csprng,
                 randFailed, wipeLog, displayed, gateVars, tkind, is_device, tfile, devVars, soVars>>

\* the files crypto_encrypt_file is given: empty, one byte, whole cipher
\* blocks, whole blocks and one byte, and one read buffer with and without a
\* byte more
InputLens == {b * AES_BLOCK_SIZE + d : b \in 0..MaxEncBlocks, d \in {0, 1}}
               \cup {ENC_CHUNK, ENC_CHUNK + 1}
InputFiles == {[i \in 1..n |-> (37 * i + 11) % 256] : n \in InputLens}

\* a ^ b on bytes
RECURSIVE Xor(_, _)
Xor(a, b) == IF a = 0 THEN b
             ELSE IF b = 0 THEN a
             ELSE ((a + b) % 2) + 2 * Xor(a \div 2, b \div 2)

XorBlock(a, b) == [i \in 1..AES_BLOCK_SIZE |-> Xor(a[i], b[i])]

\* the block cipher EVP_aes_256_cbc() selects, under a 32-byte key: a keyed
\* permutation of 16-byte blocks, and its inverse
AesBlockEncrypt(k, b) ==
  [i \in 1..AES_BLOCK_SIZE |->
     (b[(i % AES_BLOCK_SIZE) + 1] + k[i] + 3 * k[i + AES_BLOCK_SIZE] + i) % 256]
AesBlockDecrypt(k, c) ==
  [j \in 1..AES_BLOCK_SIZE |->
     LET i == ((j + AES_BLOCK_SIZE - 2) % AES_BLOCK_SIZE) + 1
     IN  (c[i] + 5 * 256 - k[i] - 3 * k[i + AES_BLOCK_SIZE] - i) % 256]

\* the last cipher block of out, or prev when out is empty
LastBlock(out, prev) ==
  IF Len(out) = 0 THEN prev ELSE SubSeq(out, Len(out) - AES_BLOCK_SIZE + 1, Len(out))

\* block number n (from 0) of data
Block(data, n) == SubSeq(data, n * AES_BLOCK_SIZE + 1, (n + 1) * AES_BLOCK_SIZE)

\* CBC over the blocks lo .. hi-1 of data, chained from prev: each block is
\* xored with the cipher block before it and encrypted.  The range is split
\* in halves, the second chained from the last cipher block of the first.
RECURSIVE CbcEncrypt(_, _, _, _, _)
CbcEncrypt(k, prev, data, lo, hi) ==
  IF hi <= lo THEN <<>>
  ELSE IF hi = lo + 1 THEN AesBlockEncrypt(k, XorBlock(Block(data, lo), prev))
  ELSE LET mid == (lo + hi) \div 2
           left == CbcEncrypt(k, prev, data, lo, mid)
       IN  left \o CbcEncrypt(k, LastBlock(left, prev), data, mid, hi)

\* EVP_EncryptUpdate(cipher_ctx, outbuf, &outlen, inbuf, inlen): the whole
\* blocks of the bytes held back and inbuf are encrypted into outbuf, the
\* rest is held back
EVP_EncryptUpdate(k, st, inbuf) ==
  LET data == st.pending \o inbuf
      whole == (Len(data) \div AES_BLOCK_SIZE) * AES_BLOCK_SIZE
      outbuf == CbcEncrypt(k, st.prev, data, 0, Len(data) \div AES_BLOCK_SIZE)
  IN  [outbuf |-> outbuf,
       st |-> [prev |-> LastBlock(outbuf, st.prev),
               pending |-> SubSeq(data, whole + 1, Len(data))]]

\* a faulty variant: the last block is filled up with zero bytes
EVP_EncryptFinal_ex_zeroPad(k, st) ==
  LET pad == AES_BLOCK_SIZE - Len(st.pending)
  IN  AesBlockEncrypt(k, XorBlock(st.pending \o Memset(pad, 0), st.prev))

\* EVP_EncryptFinal_ex(cipher_ctx, outbuf, &outlen): the bytes held back,
\* padded to a block with pad bytes of value pad (padding is on by default)
EVP_EncryptFinal_ex(k, st) ==
  LET pad == AES_BLOCK_SIZE - Len(st.pending)
  IN  AesBlockEncrypt(k, XorBlock(st.pending \o Memset(pad, pad), st.prev))

\* while ((inlen = fread(inbuf, 1, sizeof(inbuf), input)) > 0)
\* { EVP_EncryptUpdate; fwrite(outbuf, 1, outlen, output); }
\* EVP_EncryptFinal_ex; fwrite: the bytes handed to fwrite from offset pos of
\* the input on
RECURSIVE EncryptLoop(_, _, _, _)
EncryptLoop(k, st, input, pos) ==
  IF pos >= Len(input) THEN EVP_EncryptFinal_ex(k, st)
  ELSE LET inlen == Min(ENC_CHUNK, Len(input) - pos)
           u == EVP_EncryptUpdate(k, st, SubSeq(input, pos + 1, pos + inlen))
       IN  u.outbuf \o EncryptLoop(k, u.st, input, pos + inlen)

\* EVP_EncryptInit_ex(cipher_ctx, EVP_aes_256_cbc(), NULL, ctx->key, ctx->iv)
\* and the loop: what the output file holds when every write is complete
EncryptFileBytes(k, i, input) ==
  EncryptLoop(k, [prev |-> i, pending |-> <<>>], input, 0)

\* what the output file holds after a call that returned rc and left the
\* file in the condition tmp: untouched when a fopen failed, the ciphertext,
\* or the ciphertext without its end
OutputBytes(rc, tmp, old, cipher) ==
  IF tmp = "cipher" THEN {cipher}
  ELSE IF rc = DATANUKE_ERROR_IO THEN {old}
  ELSE {<<>>, SubSeq(cipher, 1, Len(cipher) - 1)}

\* crypto_encrypt_file called by a caller that holds an initialised context
\* and an existing input file, once more after each return:
\* if (!input_path || !output_path || !ctx) return DATANUKE_ERROR_CRYPTO;
\* then the function as above.  The context has no field that records a use.
EncryptFileCall ==
  /\ op = "crypto_encrypt_file" /\ pc = "enc_call"
  /\ Len(calls) < MaxEncryptCalls
  /\ \E argNull \in BOOLEAN :
       IF argNull
       THEN /\ rv' = DATANUKE_ERROR_CRYPTO
            /\ UNCHANGED <<tmpfile, transforms, outbytes>>
       ELSE \E r \in CryptoEncryptFile(tkind, tmpfile) :
              /\ rv' = r[1]
              /\ tmpfile' = r[2]
              /\ outbytes' \in OutputBytes(r[1], r[2], outbytes,
                                           EncryptFileBytes(key, iv, inbytes))
              /\ transforms' = IF r[1] = DATANUKE_ERROR_IO THEN transforms
                                ELSE transforms + 1
  /\ calls' = Append(calls, "crypto_encrypt_file")
  /\ ret' = rv'
  /\ pc' = pc
  /\ UNCHANGED <<inbytes, op, stack, key, iv, cipher_ctx, pinned, keyGenerated, csprng,
                 output, randFailed, wipeLog, displayed, gateVars, tkind, is_device,
                 tfile, devVars, soVars>>

\* the caller makes no further call
EncryptFileStop ==
  /\ op = "crypto_encrypt_file" /\ pc = "enc_call"
  /\ pc' = "done"
  /\ UNCHANGED <<fileVars, op, stack, ret, ctxVars, gateVars, mainVars, devVars, soVars>>

\* a faulty variant: the failure message carries the key
MainReplace_logsKey ==
  /\ pc = "replace"
  /\ \E removed \in BOOLEAN, renamed \in BOOLEAN, tmpRemoved \in BOOLEAN :
       IF removed /\ renamed
       THEN /\ tfile' = tmpfile
            /\ tmpfile' = "absent"
            /\ pc' = "display" /\ ret' = ret
            /\ output' = output
       ELSE /\ tfile' = IF removed THEN "absent" ELSE tfile
            /\ tmpfile' = IF tmpRemoved THEN "absent" ELSE tmpfile
            /\ pc' = "unlock" /\ ret' = 1
            /\ output' = Append(output,
                 Msg("Failed to replace original file with encrypted version",
                     <<HexDump(key, AES_KEY_SIZE)>>))
  /\ UNCHANGED <<fileVars, op, stack, ctxData, gateVars, tkind, is_device, devVars, soVars>>

\* if (remove(target_file) != 0 || rename(temp_path, encrypted_path) != 0)
\* { remove(temp_path); unlock; cleanup; return 1; }
MainReplace ==
  /\ pc = "replace"
  /\ \E removed \in BOOLEAN, renamed \in BOOLEAN, tmpRemoved \in BOOLEAN :
       IF removed /\ renamed
       THEN /\ tfile' = tmpfile
            /\ tmpfile' = "absent"
            /\ pc' = "display" /\ ret' = ret
            /\ output' = output
       ELSE /\ tfile' = IF removed THEN "absent" ELSE tfile
            /\ tmpfile' = IF tmpRemoved THEN "absent" ELSE tmpfile
            /\ pc' = "unlock" /\ ret' = 1
            /\ output' = Append(output,
                 Msg("Failed to replace original file with encrypted version", <<>>))
  /\ UNCHANGED <<fileVars, op, stack, ctxData, gateVars, tkind, is_device, devVars, soVars>>

\* a faulty variant: the key is wiped without having been displayed
MainDisplay_skipped ==
  /\ pc = "display"
  /\ pc' = "wipe"
  /\ UNCHANGED <<fileVars, op, stack, ret, ctxVars, gateVars, mainVars, devVars, soVars>>

\* crypto_display_key(&ctx): "Key (hex): " and "IV (hex):  " lines
MainDisplay ==
  /\ pc = "display"
  /\ displayed' = Append(displayed, <<HexDump(key, AES_KEY_SIZE),
                                      HexDump(iv, AES_BLOCK_SIZE)>>)
  /\ output' = output \o DisplayMessages(key, iv)
  /\ calls' = Append(calls, "crypto_display_key")
  /\ pc' = "wipe"
  /\ UNCHANGED <<fileVars, op, stack, ret, key, iv, cipher_ctx, pinned, keyGenerated, transforms, csprng, rv,
                 randFailed, wipeLog, gateVars, mainVars, devVars, soVars>>

\* result = crypto_secure_wipe_key(&ctx): the call
MainWipe ==
  /\ pc = "wipe"
  /\ calls' = Append(calls, "crypto_secure_wipe_key")
  /\ stack' = <<"after_wipe">> \o stack
  /\ pc' = "wipe_p1"
  /\ UNCHANGED <<fileVars, op, ret, key, iv, cipher_ctx, pinned, keyGenerated, transforms, csprng, output, rv, randFailed, wipeLog,
                 displayed, gateVars, mainVars, devVars, soVars>>

\* if (result != DATANUKE_SUCCESS) { unlock; cleanup; return 1; }
\* otherwise the success summary is printed
MainAfterWipe ==
  /\ pc = "after_wipe"
  /\ ret' = IF rv # DATANUKE_SUCCESS THEN 1 ELSE 0
  /\ output' = output \o
       (IF rv # DATANUKE_SUCCESS
        THEN <<Msg("Key wiping failed", <<>>)>>
        ELSE <<Msg("OPERATION SUCCESSFUL", <<>>),
               Msg("Target:         %s", <<TargetArg>>),
               Msg("Status:         ENCRYPTED (AES-256-CBC)", <<>>),
               Msg("Encryption key: SECURELY WIPED FROM MEMORY", <<>>)>>)
  /\ pc' = "unlock"
  /\ UNCHANGED <<fileVars, op, stack, ctxData, gateVars, mainVars, devVars, soVars>>

\* platform_unlock_memory(&ctx, sizeof(ctx)), on the error branches and at the end
MainUnlock ==
  /\ pc = "unlock"
  /\ \E munlock \in {0, -1} : rv' = PlatformLockMemory(munlock)
  /\ pinned' = FALSE
  /\ calls' = Append(calls, "platform_unlock_memory")
  /\ pc' = "cleanup"
  /\ UNCHANGED <<fileVars, op, stack, ret, key, iv, cipher_ctx, keyGenerated, transforms, csprng,
                 output, randFailed, wipeLog,
                 displayed, gateVars, mainVars, devVars, soVars>>

\* crypto_cleanup(&ctx): the call, and its call of crypto_secure_wipe_key
MainCleanup ==
  /\ pc = "cleanup"
  /\ calls' = Append(calls, "crypto_cleanup")
  /\ stack' = <<"cleanup_memset", "main_return">> \o stack
  /\ pc' = "wipe_p1"
  /\ UNCHANGED <<fileVars, op, ret, key, iv, cipher_ctx, pinned, keyGenerated, transforms, csprng, output, rv, randFailed, wipeLog,
                 displayed, gateVars, mainVars, devVars, soVars>>

\* return 1 (error branches) or return 0
MainReturn ==
  /\ pc = "main_return"
  /\ pc' = "done"
  /\ UNCHANGED <<fileVars, op, stack, ret, ctxVars, gateVars, mainVars, devVars, soVars>>

\* a termination signal (SIGINT, SIGTERM) delivered once the key exists: main
\* installs no handler, so the default disposition ends the process at once,
\* wherever it is, with the context as it is at that moment
Interrupt ==
  /\ op = "main" /\ keyGenerated
  /\ pc \notin {"done", "killed"}
  /\ pc' = "killed"
  /\ UNCHANGED <<fileVars, op, stack, ret, ctxVars, gateVars, mainVars, devVars, soVars>>

(***************************************************************************)
(* secure_delete_device.                                                   *)
(***************************************************************************)
\* the gate of secure_delete_device, once fgets has returned a line:
\* confirmation[strcspn(confirmation, "\n")] = 0; strcmp(confirmation, "YES") == 0
SddGateAccepts(input) ==
  LET confirmation == Fgets(input, CONFIRM_SIZE)
  IN  StrcmpEq(SetNul(confirmation, Strcspn(confirmation, {NL})), YES)

\* write(fd, buffer, n): -1, or the number of bytes transferred (0..n)
WriteResults(n) == {-1, n} \cup {x \in {0, 1, n - 1} : x >= 0 /\ x < n}

\* if (!device_path) return DATANUKE_ERROR_IO; then the confirmation:
\* fgets == NULL, or anything but YES, returns DATANUKE_ERROR_IO
SddGate ==
  /\ op = "secure_delete_device" /\ pc = "sdd_gate"
  /\ \E pathNull \in BOOLEAN :
       IF pathNull
       THEN /\ pc' = "done" /\ ret' = DATANUKE_ERROR_IO
            /\ UNCHANGED gateVars
       ELSE \E input \in Inputs :
              /\ stdin' = input
              /\ confirm' = Fgets(input, CONFIRM_SIZE)
              /\ IF FgetsNull(input) \/ ~SddGateAccepts(input)
                 THEN gate' = "declined" /\ pc' = "done" /\ ret' = DATANUKE_ERROR_IO
                 ELSE gate' = "accepted" /\ pc' = "sdd_probe" /\ ret' = ret
  /\ UNCHANGED <<fileVars, op, stack, ctxVars, mainVars, devVars, soVars>>

\* a faulty variant: a failed size probe is reported but does not return
SddProbe_ignoresFailure ==
  /\ pc = "sdd_probe"
  /\ \E r \in PlatformGetDeviceSize :
       /\ probe' = IF r[1] = DATANUKE_SUCCESS THEN "ok" ELSE "failed"
       /\ device_size' = IF r[1] = DATANUKE_SUCCESS THEN r[2] ELSE device_size
       /\ pc' = "sdd_open" /\ ret' = ret
  /\ UNCHANGED <<fileVars, op, stack, ctxVars, gateVars, mainVars, devOpenW, devPos, written,
                 soVars>>

\* uint64_t device_size = 0; if (platform_get_device_size(...) != DATANUKE_SUCCESS)
\* return DATANUKE_ERROR_PLATFORM
SddProbe ==
  /\ pc = "sdd_probe"
  /\ \E r \in PlatformGetDeviceSize :
       IF r[1] # DATANUKE_SUCCESS
       THEN /\ probe' = "failed"
            /\ device_size' = device_size
            /\ pc' = "done" /\ ret' = DATANUKE_ERROR_PLATFORM
       ELSE /\ probe' = "ok"
            /\ device_size' = r[2]
            /\ pc' = "sdd_open" /\ ret' = ret
  /\ UNCHANGED <<fileVars, op, stack, ctxVars, gateVars, mainVars, devOpenW, devPos, written,
                 soVars>>

\* fd = open(device_path, O_WRONLY | O_SYNC); buffer = malloc(1024 * 1024);
\* uint64_t written = 0
SddOpen ==
  /\ pc = "sdd_open"
  /\ \E opened \in BOOLEAN, allocated \in BOOLEAN :
       /\ devOpenW' = opened
       /\ IF ~opened
          THEN pc' = "done" /\ ret' = DATANUKE_ERROR_IO
          ELSE IF ~allocated
          THEN pc' = "done" /\ ret' = DATANUKE_ERROR_MEMORY
          ELSE pc' = "sdd_loop" /\ ret' = ret
  /\ written' = 0
  /\ UNCHANGED <<fileVars, op, stack, ctxVars, gateVars, mainVars, devPos, probe, device_size,
                 soVars>>

\* a faulty variant: every chunk has the size of the buffer
SddWrite_wholeBuffer ==
  /\ pc = "sdd_loop" /\ written < device_size
  /\ LET chunk_size == SDD_CHUNK
     IN  \E rand \in {1, 0}, result \in WriteResults(chunk_size) :
           /\ buffer' = IF rand = 1 THEN "random" ELSE buffer
           /\ sweep' = [sweep EXCEPT !.sizes = Append(@, chunk_size)]
           /\ IF result < 0
              THEN /\ pc' = "done" /\ ret' = DATANUKE_ERROR_IO
                   /\ UNCHANGED <<written, devPos>>
              ELSE /\ written' = written + chunk_size
                   /\ devPos' = devPos + result
                   /\ pc' = pc /\ ret' = ret
  /\ UNCHANGED <<fileVars, op, stack, ctxVars, gateVars, mainVars, devOpenW, probe, device_size,
                 passes, file_size, pass, remaining, goodSweeps, badSweep,
                 unlinked>>

\* one turn of while (written < device_size): RAND_bytes (result discarded),
\* write; result < 0 returns DATANUKE_ERROR_IO; written += chunk_size
SddWrite ==
  /\ pc = "sdd_loop" /\ written < device_size
  /\ LET chunk_size == IF device_size - written < SDD_CHUNK
                       THEN device_size - written ELSE SDD_CHUNK
     IN  \E rand \in {1, 0}, result \in WriteResults(chunk_size) :
           /\ buffer' = IF rand = 1 THEN "random" ELSE buffer
           /\ sweep' = [sweep EXCEPT !.sizes = Append(@, chunk_size)]
           /\ IF result < 0
              THEN /\ pc' = "done" /\ ret' = DATANUKE_ERROR_IO
                   /\ UNCHANGED <<written, devPos>>
              ELSE /\ written' = written + chunk_size
                   /\ devPos' = devPos + result
                   /\ pc' = pc /\ ret' = ret
  /\ UNCHANGED <<fileVars, op, stack, ctxVars, gateVars, mainVars, devOpenW, probe, device_size,
                 passes, file_size, pass, remaining, goodSweeps, badSweep,
                 unlinked>>

\* the loop ends: free, close, return DATANUKE_SUCCESS
SddFinish ==
  /\ pc = "sdd_loop" /\ written >= device_size
  /\ pc' = "done" /\ ret' = DATANUKE_SUCCESS
  /\ UNCHANGED <<fileVars, op, stack, ctxVars, gateVars, mainVars, devVars, soVars>>

(***************************************************************************)
(* secure_overwrite and secure_delete_file.                                *)
(***************************************************************************)
\* the lengths a file may have
FileSizes == {k * SO_CHUNK + d : k \in 0..MaxFileChunks, d \in {0, 1}}
               \cup {SO_CHUNK - 1}

\* st.st_size as stat reports it: the length of a regular file; 0 for a block
\* special file (Linux)
StatSizes(kind) == IF kind = "device" THEN {0} ELSE FileSizes

\* switch (pass % 3): the value of `pattern'
Pattern(i) == CASE i % 3 = 0 -> "0x00"
                [] i % 3 = 1 -> "0xFF"
                [] OTHER -> "0xAA"

\* a faulty variant: the first cycle keeps the switch's pattern
UsesRandom_afterFirstCycle(i) == i % 3 = 2 /\ i > 2

\* if (pass % 3 == 2 && pass > 0): the chunk is filled by RAND_bytes
UsesRandom(i) == i % 3 = 2 /\ i > 0

\* what the buffer holds after the fill of one chunk.  RAND_bytes's result
\* is discarded: when it fails the buffer keeps what it held, or part of it
FillResults(i, old) ==
  IF UsesRandom(i)
  THEN {[fill |-> "RAND_bytes", content |-> c] : c \in {"random", old, "partial"}}
  ELSE {[fill |-> "memset", content |-> Pattern(i)]}

\* fwrite(buffer, 1, n, file): the number of items written
FwriteResults(n) == {n} \cup {x \in {0, n - 1} : x >= 0 /\ x < n}

NoSweep == [pass |-> -1, start |-> 0, covered |-> 0, chunks |-> {},
            sizes |-> <<>>,
            flushed |-> FALSE, synced |-> FALSE, failedWrite |-> FALSE]

\* the pass counts a caller may hand over (size_t passes): none, a few, and
\* one above a hundred
PassCounts == (0..MaxPasses) \cup {101}

\* secure_overwrite(path, passes) called directly
SoCall ==
  /\ op = "secure_overwrite" /\ pc = "so_call"
  /\ \E p \in PassCounts : passes' = p
  /\ pc' = "so_enter"
  /\ UNCHANGED <<fileVars, op, stack, ret, ctxVars, gateVars, mainVars, devVars, file_size,
                 pass, remaining, buffer, sweep, goodSweeps, badSweep, unlinked>>

\* secure_delete_file: return secure_overwrite(path, 3)
SecureDeleteFile ==
  /\ op = "secure_delete_file" /\ pc = "sdf_call"
  /\ passes' = 3
  /\ pc' = "so_enter"
  /\ UNCHANGED <<fileVars, op, stack, ret, ctxVars, gateVars, mainVars, devVars, file_size,
                 pass, remaining, buffer, sweep, goodSweeps, badSweep, unlinked>>

\* if (!path || passes == 0) return DATANUKE_ERROR_IO; stat; fopen "rb+";
\* file_size = st.st_size; buffer = malloc(4096).  The path names a regular
\* file or a block device; st_mode is not looked at.
SoEnter ==
  /\ pc = "so_enter"
  /\ \E pathNull \in BOOLEAN, statOK \in BOOLEAN, opened \in BOOLEAN,
        allocated \in BOOLEAN, kind \in {"file", "device"} :
     \E size \in StatSizes(kind) :
       /\ tkind' = kind
       /\ IF pathNull \/ passes = 0 \/ ~statOK \/ ~opened
          THEN /\ pc' = "done" /\ ret' = DATANUKE_ERROR_IO
               /\ file_size' = file_size
          ELSE IF ~allocated
          THEN /\ pc' = "done" /\ ret' = DATANUKE_ERROR_MEMORY
               /\ file_size' = size
          ELSE /\ pc' = "so_pass" /\ ret' = ret
               /\ file_size' = size
  /\ pass' = 0
  /\ UNCHANGED <<fileVars, op, stack, ctxVars, gateVars, is_device, tfile, tmpfile, devVars,
                 passes, remaining,
                 buffer, sweep, goodSweeps, badSweep, unlinked>>

\* for (pass < passes): fseek(file, 0, SEEK_SET) (result discarded);
\* pattern = ...; remaining = file_size.  The run is followed for MaxPasses
\* passes at most.
SoPassBegin ==
  /\ pc = "so_pass" /\ pass < passes /\ pass < MaxPasses
  /\ \E seekOK \in BOOLEAN :
       sweep' = [NoSweep EXCEPT !.pass = pass,
                                !.start = IF seekOK THEN 0
                                          ELSE sweep.start + sweep.covered]
  /\ remaining' = file_size
  /\ pc' = "so_chunk"
  /\ UNCHANGED <<fileVars, op, stack, ret, ctxVars, gateVars, mainVars, devVars, passes,
                 file_size, pass, buffer, goodSweeps, badSweep, unlinked>>

\* a faulty variant: a failed write removes the half-overwritten file
SoChunk_unlinksOnFailure ==
  /\ pc = "so_chunk" /\ remaining > 0
  /\ LET chunk_size == IF remaining < SO_CHUNK THEN remaining ELSE SO_CHUNK
     IN  \E f \in FillResults(pass, buffer), n \in FwriteResults(chunk_size) :
           /\ buffer' = f.content
           /\ sweep' = [sweep EXCEPT !.covered = @ + n,
                                     !.chunks = IF n > 0 THEN @ \cup {f} ELSE @,
                                     !.sizes = Append(@, chunk_size),
                                     !.failedWrite = (n # chunk_size)]
           /\ unlinked' = (n # chunk_size)
           /\ IF n # chunk_size
              THEN pc' = "done" /\ ret' = DATANUKE_ERROR_IO /\ remaining' = remaining
              ELSE pc' = pc /\ ret' = ret /\ remaining' = remaining - chunk_size
  /\ UNCHANGED <<fileVars, op, stack, ctxVars, gateVars, mainVars, devVars, passes, file_size,
                 pass, goodSweeps, badSweep>>

\* one turn of while (remaining > 0): fill the buffer, fwrite; a short fwrite
\* returns DATANUKE_ERROR_IO; remaining -= chunk_size
SoChunk ==
  /\ pc = "so_chunk" /\ remaining > 0
  /\ LET chunk_size == IF remaining < SO_CHUNK THEN remaining ELSE SO_CHUNK
     IN  \E f \in FillResults(pass, buffer), n \in FwriteResults(chunk_size) :
           /\ buffer' = f.content
           /\ sweep' = [sweep EXCEPT !.covered = @ + n,
                                     !.chunks = IF n > 0 THEN @ \cup {f} ELSE @,
                                     !.sizes = Append(@, chunk_size),
                                     !.failedWrite = (n # chunk_size)]
           /\ IF n # chunk_size
              THEN pc' = "done" /\ ret' = DATANUKE_ERROR_IO /\ remaining' = remaining
              ELSE pc' = pc /\ ret' = ret /\ remaining' = remaining - chunk_size
  /\ UNCHANGED <<fileVars, op, stack, ctxVars, gateVars, mainVars, devVars, passes, file_size,
                 pass, goodSweeps, badSweep, unlinked>>

\* the pass ends: fflush(file); fsync(fileno(file)) (results discarded);
\* "Pass completed"; pass++
SoPassEnd ==
  /\ pc = "so_chunk" /\ remaining = 0
  /\ \E flushOK \in BOOLEAN, syncOK \in BOOLEAN :
       LET good == sweep.start = 0 /\ sweep.covered = file_size /\ flushOK /\ syncOK
       IN  /\ sweep' = [sweep EXCEPT !.flushed = flushOK, !.synced = syncOK]
           /\ goodSweeps' = IF good THEN goodSweeps + 1 ELSE goodSweeps
           /\ badSweep' = (badSweep \/ ~good)
  /\ pass' = pass + 1
  /\ pc' = "so_pass"
  /\ UNCHANGED <<fileVars, op, stack, ret, ctxVars, gateVars, mainVars, devVars, passes,
                 file_size, remaining, buffer, unlinked>>

\* a faulty variant: the result of remove(path) is not looked at
SoFinish_ignoresRemove ==
  /\ pc = "so_pass" /\ pass >= passes
  /\ \E removed \in BOOLEAN :
       /\ unlinked' = removed
       /\ ret' = DATANUKE_SUCCESS
  /\ pc' = "done"
  /\ UNCHANGED <<fileVars, op, stack, ctxVars, gateVars, mainVars, devVars, passes, file_size,
                 pass, remaining, buffer, sweep, goodSweeps, badSweep>>

\* after the loop: free, fclose; if (remove(path) != 0) return DATANUKE_ERROR_IO;
\* return DATANUKE_SUCCESS
SoFinish ==
  /\ pc = "so_pass" /\ pass >= passes
  /\ \E removed \in BOOLEAN :
       /\ unlinked' = removed
       /\ ret' = IF removed THEN DATANUKE_SUCCESS ELSE DATANUKE_ERROR_IO
  /\ pc' = "done"
  /\ UNCHANGED <<fileVars, op, stack, ctxVars, gateVars, mainVars, devVars, passes, file_size,
                 pass, remaining, buffer, sweep, goodSweeps, badSweep>>

(***************************************************************************)
(* The specification.                                                      *)
(***************************************************************************)
Ops == {"main", "crypto_secure_wipe_key", "crypto_encrypt_file",
        "secure_delete_device", "secure_overwrite", "secure_delete_file"}

Entry(o) == CASE o = "main" -> "main_start"
              [] o = "crypto_secure_wipe_key" -> "wipe_p1"
              [] o = "crypto_encrypt_file" -> "enc_call"
              [] o = "secure_delete_device" -> "sdd_gate"
              [] o = "secure_overwrite" -> "so_call"
              [] OTHER -> "sdf_call"

Init ==
  /\ op \in Ops
  /\ pc = Entry(op)
  /\ stack = IF op = "crypto_secure_wipe_key" THEN <<"done">> ELSE <<>>
  /\ ret = 0
  /\ IF op = "crypto_secure_wipe_key"
     THEN \/ key \in Garbage(AES_KEY_SIZE) /\ iv \in Garbage(AES_BLOCK_SIZE)
          \/ key = <<>> /\ iv = <<>>
     ELSE IF op = "crypto_encrypt_file"
     THEN key \in RandBufs(AES_KEY_SIZE) /\ iv \in RandBufs(AES_BLOCK_SIZE)
     ELSE key = <<>> /\ iv = <<>>
  /\ cipher_ctx = IF op = "crypto_encrypt_file" THEN "NULL" ELSE "unset"
  /\ pinned = FALSE
  /\ calls = <<>>
  /\ keyGenerated = (op = "crypto_encrypt_file")
  /\ rv = 0
  /\ randFailed = FALSE
  /\ wipeLog = <<>>
  /\ transforms = 0
  /\ csprng = <<>>
  /\ output = <<>>
  /\ displayed = <<>>
  /\ stdin = <<>> /\ confirm = <<>> /\ gate = "none"
  /\ tkind = IF op = "crypto_encrypt_file" THEN "file" ELSE "none"
  /\ is_device = 0
  /\ tfile = IF op = "crypto_encrypt_file" THEN "plain" ELSE "absent"
  /\ tmpfile = "absent"
  /\ inbytes \in (IF op = "crypto_encrypt_file" THEN InputFiles ELSE {<<>>})
  /\ outbytes = <<>>
  /\ devOpenW = FALSE /\ devPos = 0 /\ probe = "none" /\ device_size = 0
  /\ written = 0
  /\ passes = 0 /\ file_size = 0 /\ pass = 0 /\ remaining = 0
  /\ buffer = "uninit"
  /\ sweep = NoSweep /\ goodSweeps = 0 /\ badSweep = FALSE /\ unlinked = FALSE

Next ==
  \/ WipePass1 \/ WipePass2 \/ WipePass3 \/ WipePass4 \/ WipeVolatile
  \/ CleanupMemset
  \/ MainStart \/ MainIsDevice \/ MainProbe \/ MainGate \/ MainCryptoInit
  \/ MainLock \/ MainEncryptDevice \/ MainEncryptFile \/ MainReplace
  \/ MainDisplay \/ MainWipe \/ MainAfterWipe \/ MainUnlock \/ MainCleanup
  \/ MainReturn \/ Interrupt
  \/ EncryptFileCall \/ EncryptFileStop
  \/ SddGate \/ SddProbe \/ SddOpen \/ SddWrite \/ SddFinish
  \/ SoCall \/ SecureDeleteFile \/ SoEnter \/ SoPassBegin \/ SoChunk
  \/ SoPassEnd \/ SoFinish

Spec == Init /\ [][Next]_vars

(***************************************************************************)
(* Properties.                                                             *)
(***************************************************************************)
Called(f) == \E i \in 1..Len(calls) : calls[i] = f

IsPrefix(s, t) == Len(s) <= Len(t) /\ SubSeq(t, 1, Len(s)) = s

\* the calls of the documented key lifecycle, in order
LifecycleOrder(dev) ==
  <<"crypto_init", "platform_lock_memory",
    IF dev THEN "crypto_encrypt_device" ELSE "crypto_encrypt_file",
    "crypto_display_key", "crypto_secure_wipe_key", "platform_unlock_memory",
    "crypto_cleanup">>

\* the first line of the input, without its newline
FirstLine(input) == SubSeq(input, 1, FirstIdx(input, {NL}) - 1)

\* C1: whenever crypto_secure_wipe_key has just returned from a call on a
\* non-NULL context (called alone on a context of arbitrary contents, by main,
\* or by crypto_cleanup), whatever the RAND_bytes calls of pass 3 did, all 32
\* bytes of key and all 16 bytes of iv are zero.
C1_WipeZeroizes ==
  (\/ pc \in {"after_wipe", "cleanup_memset"}
   \/ (op = "crypto_secure_wipe_key" /\ pc = "done" /\ ~CtxIsNull))
  => /\ Len(key) = AES_KEY_SIZE /\ Len(iv) = AES_BLOCK_SIZE
     /\ AllZero(key) /\ AllZero(iv)

\* the wipe has returned on a context of arbitrary contents after a RAND_bytes
\* call of pass 3 failed
C1_Witness ==
  op = "crypto_secure_wipe_key" /\ pc = "done" /\ ~CtxIsNull /\ randFailed
    /\ ret = DATANUKE_SUCCESS

\* C2: whenever main has returned and crypto_init had received key material
\* from the CSPRNG, key and iv are zero.
C2_KeyZeroedOnEveryPath ==
  (op = "main" /\ pc = "done" /\ keyGenerated) => (AllZero(key) /\ AllZero(iv))

\* C3: whenever main has just called platform_unlock_memory on the context,
\* key and iv are already zero (they no longer hold the generated bytes).
C3_WipedBeforeUnpinned ==
  (op = "main" /\ pc = "cleanup" /\ Called("platform_unlock_memory"))
  => (AllZero(key) /\ AllZero(iv))

\* C4: as long as main has not failed, the calls it has made on the context are
\* a prefix of crypto_init, platform_lock_memory, one encryption call,
\* crypto_display_key, crypto_secure_wipe_key, platform_unlock_memory,
\* crypto_cleanup; when main returns 0 it has made exactly these calls, each
\* once and in this order.
C4_LifecycleOrder ==
  op = "main" =>
    /\ ret = 0 => IsPrefix(calls, LifecycleOrder(is_device # 0))
    /\ (pc = "done" /\ ret = 0) => calls = LifecycleOrder(is_device # 0)

\* main has returned 0 for a regular file
C4_Witness ==
  op = "main" /\ pc = "done" /\ ret = 0 /\ tkind = "file" /\ Len(calls) = 7

\* C5: a gate lets the operation proceed if and only if the line read from
\* standard input is exactly YES, and an abort leaves the device unwritten.
C5_ConfirmationExact ==
  gate # "none" =>
    /\ (gate = "accepted") <=> (FirstLine(stdin) = YES)
    /\ gate = "declined" => devPos = 0

\* C6: once a gate has declined (and in any case for the input NO), the
\* operation has returned a non-zero status, the device was never opened for
\* writing, no byte of it was written, and main has not called crypto_init:
\* no key exists.
C6_DeclinedTouchesNothing ==
  (gate = "declined" \/ (gate # "none" /\ stdin = <<"N", "O", NL>>)) =>
    /\ pc = "done" /\ ret # 0
    /\ ~devOpenW /\ devPos = 0 /\ written = 0
    /\ calls = <<>> /\ key = <<>> /\ iv = <<>> /\ ~keyGenerated
    /\ tfile = "absent" /\ tmpfile = "absent"

\* secure_delete_device has read NO and returned
C6_Witness ==
  op = "secure_delete_device" /\ gate = "declined" /\ stdin = <<"N", "O", NL>>
    /\ pc = "done" /\ ret = DATANUKE_ERROR_IO

\* C7: in secure_delete_device the device is opened for writing, and bytes of
\* it are written, only after the confirmation was accepted and the size
\* probe succeeded; after a failed probe the function has returned
\* DATANUKE_ERROR_PLATFORM with the device unopened and no byte written.
C7_ProbeBeforeWrite ==
  op = "secure_delete_device" =>
    /\ (devOpenW \/ devPos > 0 \/ written > 0 \/ pc = "sdd_loop")
         => (gate = "accepted" /\ probe = "ok")
    /\ probe # "none" => gate = "accepted"
    /\ probe = "failed" => /\ pc = "done" /\ ret = DATANUKE_ERROR_PLATFORM
                           /\ ~devOpenW /\ devPos = 0 /\ written = 0

\* the size probe of secure_delete_device has failed
C7_Witness ==
  op = "secure_delete_device" /\ gate = "accepted" /\ probe = "failed" /\ pc = "done"

\* C8: when secure_delete_device returns DATANUKE_SUCCESS every byte offset
\* in [0, device_size) has been overwritten.
C8_DeviceFullyOverwritten ==
  (op = "secure_delete_device" /\ pc = "done" /\ probe = "ok"
     /\ ret = DATANUKE_SUCCESS)
  => devPos >= device_size

\* C9: secure_overwrite unlinks the file only after exactly `passes' sweeps
\* that each began at offset 0, covered [0, file_size) and were flushed and
\* synced; once a sweep has failed (write, flush or sync) the function has
\* returned DATANUKE_ERROR_IO without starting another pass or unlinking.
C9_PassCoverage ==
  op \in {"secure_overwrite", "secure_delete_file"} =>
    /\ unlinked => (goodSweeps = passes /\ ~badSweep)
    /\ (badSweep \/ sweep.failedWrite)
         => (pc = "done" /\ ret = DATANUKE_ERROR_IO /\ ~unlinked)

\* C10: every chunk written in pass i was filled by the rule i mod 3: memset
\* 0x00 when 0, memset 0xFF when 1, RAND_bytes when 2; no chunk written holds
\* the pattern 0xAA.
C10_PatternRule ==
  \A c \in sweep.chunks :
    /\ c.fill = IF sweep.pass % 3 = 2 THEN "RAND_bytes" ELSE "memset"
    /\ c.fill = "memset" => c.content = IF sweep.pass % 3 = 0 THEN "0x00" ELSE "0xFF"
    /\ c.content # "0xAA"

\* chunks of the third pass of the second cycle (pass index 5) were written
C10_Witness ==
  sweep.pass = 5 /\ passes = MaxPasses /\ sweep.covered > SO_CHUNK
    /\ \E c \in sweep.chunks : c.fill = "RAND_bytes" /\ c.content = "random"

\* C11: a pass of secure_overwrite writes a byte only when every earlier pass
\* began at offset 0, wrote all of [0, file_size) and was flushed and synced
\* (pass i+1 never writes before pass i is durably on the medium).
C11_PassesSequential ==
  (op \in {"secure_overwrite", "secure_delete_file"}
     /\ sweep.pass >= 1 /\ sweep.covered > 0)
  => goodSweeps >= sweep.pass


\* C12 (as stated): once a write of secure_overwrite has failed, the file was
\* not unlinked and at least one pass had run to its end before the failing
\* write.
C12_AbortAfterOneFullPass ==
  (op \in {"secure_overwrite", "secure_delete_file"} /\ sweep.failedWrite)
  => (~unlinked /\ pass >= 1)

\* C12 (amended): once a write of secure_overwrite has failed in pass i, the
\* function has returned DATANUKE_ERROR_IO, the file was not unlinked, the
\* failing pass did not cover the file, and exactly the i passes before it
\* (none when i = 0) had run to their end.
C12_AbortKeepsTarget ==
  (op \in {"secure_overwrite", "secure_delete_file"} /\ sweep.failedWrite)
  => /\ pc = "done" /\ ret = DATANUKE_ERROR_IO
     /\ ~unlinked
     /\ sweep.covered < file_size
     /\ pass = sweep.pass /\ pass < passes

\* the second chunk of the third pass failed to write
C12_Witness ==
  op = "secure_delete_file" /\ sweep.failedWrite /\ sweep.pass = 2
    /\ sweep.covered >= SO_CHUNK /\ pc = "done"


\* C13: secure_overwrite called with a pass count outside [1, 100] has
\* returned an error without writing a byte or unlinking, and
\* secure_delete_file runs secure_overwrite with exactly 3 passes.
C13_PassCountBounded ==
  /\ (op = "secure_overwrite" /\ pc \notin {"so_call", "so_enter"}
        /\ (passes < 1 \/ passes > 100))
     => (pc = "done" /\ ret # DATANUKE_SUCCESS /\ sweep = NoSweep /\ ~unlinked)
  /\ (op = "secure_delete_file" /\ pc # "sdf_call") => passes = 3


\* C14: no erasure operation unlinks a block device: secure_delete_device
\* never removes its path, secure_overwrite removes its path only when it is
\* a regular file, and main replaces only a regular file.
C14_DeviceNeverUnlinked ==
  /\ op = "secure_delete_device" => ~unlinked
  /\ tkind = "device" => (~unlinked /\ pc # "replace")


\* C15: when secure_delete_file has returned on a regular file, it returned
\* DATANUKE_SUCCESS if and only if the loop ran all three passes to their end
\* and remove(path) succeeded (the path is gone); when the three passes ran
\* and the unlink failed it returned DATANUKE_ERROR_IO.
C15_DefaultEraseResult ==
  (op = "secure_delete_file" /\ pc = "done" /\ tkind = "file") =>
    /\ (ret = DATANUKE_SUCCESS) <=> (pass = 3 /\ unlinked)
    /\ (pass = 3 /\ ~unlinked) => ret = DATANUKE_ERROR_IO
    /\ unlinked => (passes = 3 /\ ~sweep.failedWrite /\ sweep.pass = 2
                     /\ sweep.covered = file_size)

\* a regular file of more than one chunk was erased in the default mode
C15_Witness ==
  op = "secure_delete_file" /\ pc = "done" /\ tkind = "file"
    /\ ret = DATANUKE_SUCCESS /\ unlinked /\ pass = 3 /\ file_size > SO_CHUNK


\* C16: a call of crypto_encrypt_file on a context that an earlier call has
\* already used returns an error and performs no transform: at most one call
\* on a context ever opens its output.
C16_SingleUse ==
  (op = "crypto_encrypt_file" /\ Len(calls) >= 2)
  => (rv # DATANUKE_SUCCESS /\ transforms <= 1)


IsHex(s) == \A i \in 1..Len(s) : \E d \in 1..16 : s[i] = HexDigits[d]

\* C17: main displays key and iv at most once, the key as 64 and the iv as 32
\* hexadecimal characters; a run that returns 0 has displayed them exactly
\* once; the display comes after the encryption call (and, for a file, the
\* replacement) succeeded and before any call of crypto_secure_wipe_key, so
\* a run that failed earlier has displayed nothing.
C17_DisplayedOnce ==
  op = "main" =>
    /\ Len(displayed) <= 1
    /\ \A n \in 1..Len(displayed) :
         /\ Len(displayed[n][1]) = 2 * AES_KEY_SIZE /\ IsHex(displayed[n][1])
         /\ Len(displayed[n][2]) = 2 * AES_BLOCK_SIZE /\ IsHex(displayed[n][2])
    /\ (pc = "done" /\ ret = 0) => Len(displayed) = 1
    /\ Len(displayed) = 1 =>
         /\ IsPrefix(SubSeq(LifecycleOrder(is_device # 0), 1, 4), calls)
         /\ is_device = 0 => (tfile \notin {"plain", "absent"} /\ tmpfile = "absent")
    /\ Len(displayed) = 0 =>
         (~Called("crypto_display_key") /\ ~Called("crypto_secure_wipe_key"))

\* main has returned 0 after displaying a key whose first byte is below 16
C17_Witness ==
  op = "main" /\ pc = "done" /\ ret = 0 /\ Len(displayed) = 1
    /\ displayed[1][1][1] = "0" /\ Len(displayed[1][2]) = 32


\* C18: in main every call of crypto_secure_wipe_key is directly preceded by
\* a pause (sleep) that follows the display: the wipe never starts right after
\* crypto_display_key returns.
C18_GraceInterval ==
  op = "main" =>
    \A i \in 1..Len(calls) :
      calls[i] = "crypto_secure_wipe_key"
        => (i > 2 /\ calls[i - 1] = "sleep" /\ calls[i - 2] = "crypto_display_key")


\* C19: the passes of crypto_secure_wipe_key come in the order memset 0x00,
\* memset 0xFF, RAND_bytes, memset 0x00, volatile stores of 0; after each of
\* them all 32 bytes of key and all 16 bytes of iv hold that pass's pattern
\* (for pass 3: the CSPRNG's output whenever it delivered); a wipe that has
\* returned has made exactly these five passes, none skipped or reordered.
C19_WipeOrder ==
  LET how == <<"memset", "memset", "RAND_bytes", "memset", "volatile">>
      pat == <<"0x00", "0xFF", "random", "0x00", "0x00">>
  IN  /\ Len(wipeLog) <= 5
      /\ \A n \in 1..Len(wipeLog) :
           /\ wipeLog[n].how = how[n]
           /\ wipeLog[n].keyLen = AES_KEY_SIZE /\ wipeLog[n].ivLen = AES_BLOCK_SIZE
           /\ (n # 3 \/ ~randFailed)
                => (wipeLog[n].key = pat[n] /\ wipeLog[n].iv = pat[n])
      /\ (\/ pc \in {"after_wipe", "cleanup_memset"}
          \/ (op = "crypto_secure_wipe_key" /\ pc = "done" /\ ~CtxIsNull))
         => Len(wipeLog) = 5
      /\ pc = "wipe_p2" => Len(wipeLog) = 1
      /\ pc = "wipe_p3" => Len(wipeLog) = 2
      /\ pc = "wipe_p4" => Len(wipeLog) = 3
      /\ pc = "wipe_vol" => Len(wipeLog) = 4

\* main's wipe of a generated key has returned, the CSPRNG having delivered
\* in pass 3
C19_Witness ==
  op = "main" /\ pc = "after_wipe" /\ Len(wipeLog) = 5 /\ ~randFailed
    /\ wipeLog[3].key = "random" /\ wipeLog[3].iv = "random"
    /\ wipeLog[2].iv = "0xFF"

\* C20: a wipe that has returned has made seven overwrite passes over key and
\* iv: 0x00, 0xFF, random, 0x00, and three passes of volatile stores.
C20_SevenPasses ==
  (\/ pc \in {"after_wipe", "cleanup_memset"}
   \/ (op = "crypto_secure_wipe_key" /\ pc = "done" /\ ~CtxIsNull))
  => /\ Len(wipeLog) = 7
     /\ \A n \in 5..7 : wipeLog[n].how = "volatile"


\* C21: when a RAND_bytes call of pass 3 has failed, pass 3 ends with the
\* zero pattern in the buffers (at least one of key and iv is all-zero after
\* it); the wipe still makes its remaining passes and returns
\* DATANUKE_SUCCESS, also after a failed lock or a failed encryption.
C21_WipeFallsBackToZero ==
  /\ (randFailed /\ Len(wipeLog) >= 3)
     => (wipeLog[3].key = "0x00" \/ wipeLog[3].iv = "0x00")
  /\ (\/ pc \in {"after_wipe", "cleanup_memset"}
      \/ (op = "crypto_secure_wipe_key" /\ pc = "done" /\ ~CtxIsNull))
     => (rv = DATANUKE_SUCCESS /\ Len(wipeLog) = 5)


\* C22: when crypto_init has just returned to main, it returned
\* DATANUKE_SUCCESS if and only if it made both RAND_bytes requests and both
\* returned 1, and DATANUKE_ERROR_CRYPTO otherwise; on success key and iv are
\* the 32 and 16 bytes the CSPRNG delivered; cipher_ctx is NULL, and an iv
\* that was never requested is all-zero (the context was zeroed first).
C22_CryptoInitResult ==
  (op = "main" /\ calls = <<"crypto_init">>) =>
    /\ Len(csprng) \in {1, 2}
    /\ (rv = DATANUKE_SUCCESS)
         <=> (Len(csprng) = 2 /\ csprng[1][1] = 1 /\ csprng[2][1] = 1)
    /\ rv # DATANUKE_SUCCESS => rv = DATANUKE_ERROR_CRYPTO
    /\ rv = DATANUKE_SUCCESS
         => /\ key = csprng[1][2] /\ Len(key) = AES_KEY_SIZE
            /\ iv = csprng[2][2] /\ Len(iv) = AES_BLOCK_SIZE
    /\ cipher_ctx = "NULL"
    /\ Len(csprng) = 1
         => (csprng[1][1] # 1 /\ Len(iv) = AES_BLOCK_SIZE /\ AllZero(iv))

\* crypto_init has failed on its first RAND_bytes request
C22_Witness ==
  op = "main" /\ calls = <<"crypto_init">> /\ pc = "done" /\ Len(csprng) = 1
    /\ rv = DATANUKE_ERROR_CRYPTO /\ ret = 1


\* C23: a call of platform_lock_memory in main that fails makes main print a
\* message (the warning) before it goes on to the encryption, and main goes
\* on with its exit status untouched.
C23_LockFailureReported ==
  [][(op = "main" /\ pc = "lock" /\ pc' = "encrypt" /\ ~pinned')
       => (Len(output') > Len(output) /\ ret' = ret)]_vars


Count(f) == Cardinality({i \in 1..Len(calls) : calls[i] = f})

\* C24: when main has returned after having called platform_lock_memory, it
\* has called platform_unlock_memory exactly once and crypto_cleanup exactly
\* once, the two being its last calls, and the context is no longer pinned;
\* this holds for exit status 0 and for every error branch.
C24_UnpinAndDestroyAlways ==
  (op = "main" /\ pc = "done" /\ Called("platform_lock_memory")) =>
    /\ Count("platform_unlock_memory") = 1
    /\ Count("crypto_cleanup") = 1
    /\ Count("platform_lock_memory") = 1
    /\ calls[Len(calls) - 1] = "platform_unlock_memory"
    /\ calls[Len(calls)] = "crypto_cleanup"
    /\ ~pinned

\* main has returned 1 because the encryption of the file failed
C24_Witness ==
  op = "main" /\ pc = "done" /\ ret = 1
    /\ calls = <<"crypto_init", "platform_lock_memory", "crypto_encrypt_file",
                 "platform_unlock_memory", "crypto_cleanup">>


\* C25: for a path that cannot be accessed platform_is_device returns -1, and
\* main has then returned non-zero without calling crypto_init (no key
\* exists) and without creating, removing or replacing any file.
C25_InaccessibleIsError ==
  (op = "main" /\ tkind = "inaccessible") =>
    /\ is_device = -1
    /\ pc = "done" /\ ret # 0
    /\ calls = <<>> /\ ~keyGenerated /\ key = <<>>
    /\ tfile = "absent" /\ tmpfile = "absent"


\* the whole operation of main succeeded: the target was resolved, a device
\* was confirmed, both CSPRNG requests delivered, the encryption ran without
\* error and the file was replaced by the complete ciphertext, and the key is
\* wiped
OperationSucceeded ==
  /\ tkind \in {"file", "device"}
  /\ tkind = "device" => gate = "accepted"
  /\ Len(csprng) = 2 /\ csprng[1][1] = 1 /\ csprng[2][1] = 1
  /\ tkind = "file" => (tfile = "cipher" /\ tmpfile = "absent")
  /\ tkind = "device" => Called("crypto_encrypt_device")
  /\ Called("crypto_secure_wipe_key") /\ AllZero(key) /\ AllZero(iv)

\* C26: main returns 0 if and only if the whole operation succeeded, and
\* non-zero after a refused confirmation.
C26_ExitStatus ==
  (op = "main" /\ pc = "done") =>
    /\ (ret = 0) <=> OperationSucceeded
    /\ gate = "declined" => ret # 0


\* C27: whenever crypto_encrypt_file has returned DATANUKE_SUCCESS (to main,
\* or to a caller of its own) the output file holds the complete ciphertext
\* of the input; a failed read or write makes it return DATANUKE_ERROR_IO.
C27_EncryptReportsIO ==
  /\ (op = "main" /\ pc = "replace") => tmpfile = "cipher"
  /\ (op = "crypto_encrypt_file" /\ Len(calls) >= 1 /\ rv = DATANUKE_SUCCESS)
       => tmpfile = "cipher"


\* C28: when main has encrypted a regular file and returns 0, the file is
\* encrypted in place: the target path holds the complete ciphertext and the
\* temporary file no longer exists.
C28_EncryptedInPlace ==
  (op = "main" /\ pc = "done" /\ ret = 0 /\ is_device = 0)
    => (tfile = "cipher" /\ tmpfile = "absent")


\* the text t holds the text s
Contains(t, s) ==
  \E i \in 0..(Len(t) - Len(s)) : SubSeq(t, i + 1, i + Len(s)) = s

\* the key and IV the CSPRNG delivered, as crypto_display_key would print them
KeyMaterial ==
  {HexDump(csprng[n][2], Len(csprng[n][2])) :
     n \in {m \in 1..Len(csprng) : csprng[m][1] = 1}}

\* the contents a regular file can have: none, the plaintext, or cipher output
FileContents == {"absent", "plain", "cipher", "partial"}

\* C29: key material leaves the context only through the one-time display:
\* every printed message that holds the key or IV bytes is the "Key (hex)" or
\* "IV (hex)" line of crypto_display_key, each of them is printed at most
\* once, and the target and the temporary file never hold anything but
\* plaintext or cipher output.
C29_KeyNotLeaked ==
  /\ \A m \in 1..Len(output) : \A a \in 1..Len(output[m].args) :
       (\E s \in KeyMaterial : Contains(output[m].args[a], s))
         => output[m].fmt \in {"Key (hex): %02x", "IV (hex):  %02x"}
  /\ \A f \in {"Key (hex): %02x", "IV (hex):  %02x"} :
       Cardinality({m \in 1..Len(output) : output[m].fmt = f}) <= 1
  /\ tfile \in FileContents /\ tmpfile \in FileContents

\* C29 witness: a key was generated, the replacement of the file failed and
\* its error message was printed
C29_Witness ==
  /\ op = "main" /\ pc = "done" /\ ret = 1
  /\ Cardinality(KeyMaterial) >= 1
  /\ \E m \in 1..Len(output) :
       output[m].fmt = "Failed to replace original file with encrypted version"


\* C30: when a termination signal ends the process after the key was
\* generated, no non-zero key material is left in the context.
C30_InterruptStillWipes ==
  (op = "main" /\ pc = "killed") => (AllZero(key) /\ AllZero(iv))


C32_PlatformStatusCodes ==
  /\ (Len(calls) > 0
        /\ calls[Len(calls)] \in {"platform_lock_memory", "platform_unlock_memory"})
       => rv \in {DATANUKE_SUCCESS, DATANUKE_ERROR_MEMORY}
  /\ pc \in {"probe", "sdd_probe"}
       => \A r \in PlatformGetDeviceSize :
            r[1] \in {DATANUKE_SUCCESS, DATANUKE_ERROR_PLATFORM}


\* CBC decryption of the blocks lo .. hi-1 of data: each block is decrypted
\* and xored with the cipher block before it (the IV for block 0)
RECURSIVE CbcDecrypt(_, _, _, _, _)
CbcDecrypt(k, i, data, lo, hi) ==
  IF hi <= lo THEN <<>>
  ELSE IF hi = lo + 1
  THEN XorBlock(AesBlockDecrypt(k, Block(data, lo)),
                IF lo = 0 THEN i ELSE Block(data, lo - 1))
  ELSE LET mid == (lo + hi) \div 2
       IN  CbcDecrypt(k, i, data, lo, mid) \o CbcDecrypt(k, i, data, mid, hi)

\* the padding is taken off: the last byte says how many bytes to drop
Unpad(p) == IF Len(p) = 0 THEN p ELSE SubSeq(p, 1, Len(p) - p[Len(p)])

\* openssl enc -d -aes-256-cbc -K key -iv iv
OpensslDecrypt(k, i, c) == Unpad(CbcDecrypt(k, i, c, 0, Len(c) \div AES_BLOCK_SIZE))

\* C33: round trip.  When crypto_encrypt_file has returned DATANUKE_SUCCESS
\* with every read and write complete, for an input of length 0, 1, a
\* multiple of 16, or a multiple of 16 plus 1 (one that spans two read
\* buffers included), decrypting the output file with AES-256-CBC under the
\* key and IV of the context gives back the input bytes, and the output is
\* as long as the next multiple of 16 strictly above the input's length.
C33_RoundTrip ==
  (op = "crypto_encrypt_file" /\ Len(calls) >= 1 /\ rv = DATANUKE_SUCCESS
     /\ tmpfile = "cipher")
  => /\ OpensslDecrypt(key, iv, outbytes) = inbytes
     /\ Len(outbytes) = ((Len(inbytes) \div AES_BLOCK_SIZE) + 1) * AES_BLOCK_SIZE
     /\ outbytes # inbytes

\* C33 witness: a file one byte longer than the read buffer was encrypted
C33_Witness ==
  /\ op = "crypto_encrypt_file" /\ Len(calls) >= 1 /\ rv = DATANUKE_SUCCESS
  /\ tmpfile = "cipher"
  /\ Len(inbytes) = ENC_CHUNK + 1
  /\ Len(outbytes) = ENC_CHUNK + AES_BLOCK_SIZE


\* C34: for a regular-file target, at every exit of main the target path
\* holds the unmodified original content and main returns non-zero, or it
\* holds the complete ciphertext and main returns 0; it is never missing and
\* never holds partial data.
C34_TargetNeverLost ==
  (op = "main" /\ pc = "done" /\ tkind = "file")
    => \/ ret # 0 /\ tfile = "plain"
       \/ ret = 0 /\ tfile = "cipher"


\* the value of a hexadecimal digit, and the bytes a hex dump stands for
HexVal(d) == (CHOOSE n \in 1..16 : HexDigits[n] = d) - 1
FromHex(s) == [n \in 1..(Len(s) \div 2) |-> 16 * HexVal(s[2 * n - 1]) + HexVal(s[2 * n])]

\* C35: from the return of crypto_init to the call of the wipe (through
\* platform_lock_memory, the encryption, the replacement of the file and
\* crypto_display_key) key and iv are the bytes the CSPRNG delivered in
\* crypto_init, and what crypto_display_key printed reads back, byte for
\* byte, as that key and that IV.
C35_DisplayedIsGenerated ==
  op = "main" =>
    /\ pc \in {"lock", "encrypt", "replace", "display", "wipe"}
         => (Len(csprng) = 2 /\ key = csprng[1][2] /\ iv = csprng[2][2])
    /\ Len(displayed) >= 1
         => /\ FromHex(displayed[1][1]) = csprng[1][2]
            /\ FromHex(displayed[1][2]) = csprng[2][2]

\* C35 witness: the key was shown after a file was encrypted, the wipe has
\* not begun
C35_Witness ==
  /\ op = "main" /\ pc = "wipe"
  /\ Len(displayed) = 1 /\ Called("crypto_encrypt_file")
  /\ ~AllZero(key)


\* main's gate lets the operation proceed for this input
MainGateAccepts(input) == ~MainGateAborts(input)

\* secure_delete_device's gate lets the operation proceed for this input
SddGateProceeds(input) == ~FgetsNull(input) /\ SddGateAccepts(input)

\* C36: the gate of main and the gate of secure_delete_device accept exactly
\* the same inputs: whatever line a gate has read, the other gate would have
\* decided the same.
C36_GatesAgree ==
  gate # "none" =>
    /\ MainGateAccepts(stdin) <=> SddGateProceeds(stdin)
    /\ (gate = "accepted") <=> (IF op = "main" THEN MainGateAccepts(stdin)
                                 ELSE SddGateProceeds(stdin))


\* C37: the erasure engine writes no chunk of a random pass whose random
\* bytes were not produced: every chunk secure_overwrite has written in a
\* RAND_bytes pass holds random bytes, and every byte secure_delete_device
\* has written came from a buffer that RAND_bytes filled.
C37_RandFailureReported ==
  /\ \A c \in sweep.chunks : c.fill = "RAND_bytes" => c.content = "random"
  /\ (op = "secure_delete_device" /\ devPos > 0) => buffer = "random"


RECURSIVE SumSeq(_)
SumSeq(s) == IF s = <<>> THEN 0 ELSE Head(s) + SumSeq(Tail(s))

\* C38: the chunked write loops stay in range and end.  Every chunk of
\* secure_overwrite has a size in [1, 4096] and every chunk of
\* secure_delete_device a size in [1, 1048576]; the sizes of a pass never sum
\* to more than the target's length, remaining never goes below 0 and
\* written never above device_size; a pass that has ended, and a device loop
\* that has ended, consists of chunks that sum to exactly the length, and a
\* loop never takes more turns than the length holds chunks (rounded up); a
\* target of length 0 gets no chunk.
C38_ChunksInRange ==
  /\ op \in {"secure_overwrite", "secure_delete_file"} =>
       /\ \A n \in 1..Len(sweep.sizes) : sweep.sizes[n] \in 1..SO_CHUNK
       /\ remaining >= 0 /\ remaining <= file_size
       /\ SumSeq(sweep.sizes) <= file_size
       /\ Len(sweep.sizes) * SO_CHUNK < file_size + SO_CHUNK
       /\ (pc = "so_chunk" /\ ~sweep.failedWrite)
            => SumSeq(sweep.sizes) = file_size - remaining
       /\ (pc = "so_pass" /\ sweep.pass >= 0) => SumSeq(sweep.sizes) = file_size
       /\ file_size = 0 => sweep.sizes = <<>>
  /\ op = "secure_delete_device" =>
       /\ \A n \in 1..Len(sweep.sizes) : sweep.sizes[n] \in 1..SDD_CHUNK
       /\ written >= 0 /\ written <= device_size
       /\ SumSeq(sweep.sizes) <= device_size
       /\ Len(sweep.sizes) * SDD_CHUNK < device_size + SDD_CHUNK
       /\ pc = "sdd_loop" => SumSeq(sweep.sizes) = written
       /\ (pc = "done" /\ probe = "ok" /\ ret = DATANUKE_SUCCESS)
            => (written = device_size /\ SumSeq(sweep.sizes) = device_size)
       /\ device_size = 0 => sweep.sizes = <<>>

\* C38 witness: a pass of secure_overwrite over two whole chunks and one byte
\* has ended, in chunks of 4096, 4096 and 1 bytes
C38_Witness ==
  /\ op = "secure_overwrite" /\ pc = "so_pass" /\ sweep.pass >= 0
  /\ file_size = 2 * SO_CHUNK + 1
  /\ sweep.sizes = <<SO_CHUNK, SO_CHUNK, 1>>

=============================================================================
